---- MODULE Spec2Model ----
(***************************************************************************)
(* A model of datachad/backend/loader.py: the git fetcher AutoGitLoader,   *)
(* the dispatch of load_data_source / load_document, the directory walk    *)
(* load_directory and the FAQ splitter SmartFAQSplitter.                   *)
(*                                                                         *)
(* Python strings are sequences of one-character strings, so that split,   *)
(* rsplit, startswith, strip and the regular expressions are computed.     *)
(***************************************************************************)
EXTENDS Integers, Sequences, FiniteSets, TLC

\* ------------------------------------------------------------------ bounds
\* number of AutoGitLoader.load calls in one behaviour
MaxCalls == 2
\* number of entries below a directory handed to load_directory
MaxFiles == 3
\* number of documents one loader returns for one file
MaxParts == 2
\* numbered entries in one FAQ document
MaxEntries == 2
\* length of an arbitrary (not necessarily well-formed) FAQ document
MaxText == 3
\* documents in one split_documents call
MaxDocs == 2

\* ------------------------------------------------------- string primitives
\* s[i..j] as a sequence (empty when j < i)
Slice(s, i, j) == IF j < i THEN << >> ELSE SubSeq(s, i, j)

\* the positions of character c in s
Positions(s, c) == {i \in 1..Len(s) : s[i] = c}

Max(S) == CHOOSE x \in S : \A y \in S : y <= x
Min(S) == CHOOSE x \in S : \A y \in S : x <= y

\* str.split(c)[-1] and str.rsplit(c, 1)[-1]: what follows the last c
AfterLast(s, c) ==
    IF Positions(s, c) = {} THEN s ELSE Slice(s, Max(Positions(s, c)) + 1, Len(s))

\* str.split(c)[0]: what precedes the first c
BeforeFirst(s, c) ==
    IF Positions(s, c) = {} THEN s ELSE Slice(s, 1, Min(Positions(s, c)) - 1)

\* str.startswith(p)
StartsWith(s, p) == Len(s) >= Len(p) /\ Slice(s, 1, Len(p)) = p

\* ------------------------------------------------------------ git fetcher
HTTP  == <<"h", "t", "t", "p", ":", "/", "/">>
DOTGIT == <<".", "g", "i", "t">>

\* the repository URLs handed to AutoGitLoader: two hosts, three last
\* segments; "http://h/.git" has an empty repository name
GitHosts == {<<"h">>, <<"g">>}
GitStems == {<<"a">>, <<"b">>, << >>}
GitUrls == {HTTP \o h \o <<"/">> \o n \o DOTGIT : h \in GitHosts, n \in GitStems}

\* Python's None for clone_url (no URL is the empty string)
None == << >>
\* docs before any branch attempt bound it
Unset == [branch |-> "unset", origin |-> << >>]
\* clones: no directory / a directory that was there before any call
NoDir == << >>
Pre == <<"*">>

\* repo_name = self.data_source.split("/")[-1].split(".")[0]
RepoName(data_source) == BeforeFirst(AfterLast(data_source, "/"), ".")

\* repo_path = DATA_PATH / repo_name, as the path relative to DATA_PATH:
\* the empty sequence is DATA_PATH itself (pathlib: DATA_PATH / "" = DATA_PATH)
RepoPath_shared(data_source) == <<"a">>
RepoPath(data_source) == RepoName(data_source)

\* the directories that can exist directly under DATA_PATH
DirNames == {RepoName(u) : u \in GitUrls} \ {<< >>}

Procs == {1, 2}
Branches_swapped == <<"master", "main">>
Branches == <<"main", "master">>

VARIABLES
    dataExists,   \* DATA_PATH exists
    clones,       \* DirNames -> NoDir | Pre | the URL whose clone the directory holds
    gpc,          \* per call: "idle" | "loop" | "cleanup" | "done"
    url,          \* self.data_source
    clone_url,    \* clone_url of the running call
    attempts,     \* the GitLoader attempts of the call, in order:
                  \* <<branch, ok, repo_path exists afterwards>>
    docs,         \* Unset or [branch, origin] of the documents loaded
    logs,         \* logger.error calls of the call
    gres,         \* "none" | "returned" | "raised"
    removed,      \* the paths shutil.rmtree was called on
    calls,        \* calls started so far
    called        \* per caller: the URLs of the calls it has started

gitVars == <<dataExists, clones, gpc, url, clone_url, attempts, docs, logs, gres,
             removed, calls, called>>

VARIABLES
    lpc,          \* "idle" | "walking" (inside load_directory's loop) | "done"
    caller,       \* the function called: "load_data_source" | "load_directory"
    source,       \* data_source of load_data_source, path of load_directory
    is_web,       \* load_data_source: data_source.startswith("http")
    is_dir,       \* load_data_source: os.path.isdir(data_source)
    is_file,      \* load_data_source: os.path.isfile(data_source)
    route,        \* the branch load_data_source took
    loader,       \* the loader class load_document built for data_source
    silent,       \* silent_errors
    all_files,    \* load_directory: the enumerated file names
    extracted,    \* per file attempted, in order: <<ok, documents the loader gave>>
    results,      \* the documents collected / returned
    logged,       \* logger.error calls
    progress,     \* pbar.update() calls
    outcome,      \* "none" | "returned" | "raised"
    err           \* the exception raised: [type, args]

loadVars == <<lpc, caller, source, is_web, is_dir, is_file, route, loader, silent,
              all_files, extracted, results, logged, progress, outcome, err>>

VARIABLES
    fpc,          \* "idle" | "splitting" (inside split_documents' loop) | "done"
    documents,    \* the page_content of each document handed to split_documents
    splitted,     \* splitted_documents: [page_content, faq_no] in order
    fdone,        \* documents the loop is through with
    fout          \* "none" | "returned" | "IndexError"

faqVars == <<fpc, documents, splitted, fdone, fout>>

vars == <<gitVars, loadVars, faqVars>>

\* ------------------------------------------- registries and load_document
DOTPDF == <<".", "p", "d", "f">>
DOTTXT == <<".", "t", "x", "t">>

\* FILE_LOADER_MAPPING: <<extension, loader class, loader arguments>>
FILE_LOADER_MAPPING == {
    <<<<".", "c", "s", "v">>, "CSVLoader", "encoding=utf-8">>,
    <<<<".", "d", "o", "c">>, "UnstructuredWordDocumentLoader", "">>,
    <<<<".", "d", "o", "c", "x">>, "UnstructuredWordDocumentLoader", "">>,
    <<<<".", "e", "n", "e", "x">>, "EverNoteLoader", "">>,
    <<<<".", "e", "p", "u", "b">>, "UnstructuredEPubLoader", "">>,
    <<<<".", "h", "t", "m", "l">>, "UnstructuredHTMLLoader", "">>,
    <<<<".", "m", "d">>, "UnstructuredMarkdownLoader", "">>,
    <<<<".", "o", "d", "t">>, "UnstructuredODTLoader", "">>,
    <<DOTPDF, "PyPDFium2Loader", "">>,
    <<<<".", "p", "p", "t">>, "UnstructuredPowerPointLoader", "">>,
    <<<<".", "p", "p", "t", "x">>, "UnstructuredPowerPointLoader", "">>,
    <<DOTTXT, "TextLoader", "encoding=utf8">>,
    <<<<".", "i", "p", "y", "n", "b">>, "NotebookLoader", "">>,
    <<<<".", "p", "y">>, "PythonLoader", "">> }

\* WEB_LOADER_MAPPING
WEB_LOADER_MAPPING == {
    <<DOTGIT, "AutoGitLoader", "">>,
    <<DOTPDF, "OnlinePDFLoader", "">> }

\* ext = "." + file_path.rsplit(".", 1)[-1]
Ext_from_first_dot(file_path) ==
    <<".">> \o (IF Positions(file_path, ".") = {} THEN file_path
               ELSE Slice(file_path, Min(Positions(file_path, ".")) + 1, Len(file_path)))
Ext(file_path) == <<".">> \o AfterLast(file_path, ".")

\* load_document: the loader class built for file_path (its load() is the
\* extractor's business)
LoadDocument(file_path, mapping, default_loader) ==
    IF \E m \in mapping : m[1] = Ext(file_path)
    THEN (CHOOSE m \in mapping : m[1] = Ext(file_path))[2]
    ELSE default_loader

\* the documents a loader returned for one file: n documents
Documents(file, cls, n) == [k \in 1..n |-> [file |-> file, loader |-> cls, part |-> k]]

\* ---------------------------------------------------- source descriptors
GITHUB == <<"g", "i", "t", "h", "u", "b", ".", "c", "o", "m", "/">>
SrcPrefixes == {HTTP, <<"d", "/">>, <<"h", "t", "t", "p", "_">>}
SrcStems == {<<"a">>, GITHUB \o <<"a">>}
SrcSuffixes == {<< >>, DOTGIT, DOTPDF, DOTTXT}
Sources == {p \o m \o x : p \in SrcPrefixes, m \in SrcStems, x \in SrcSuffixes}

\* what the file system holds at a path
Kinds == {"none", "file", "dir"}

\* names found below a directory; ".env" is hidden
DirEntries == { <<"a">> \o DOTTXT, <<"b">> \o DOTPDF, <<".", "e", "n", "v">> }
Listings == UNION {[1..n -> DirEntries] : n \in 0..MaxFiles}

NoErr == [type |-> "none", args |-> << >>]
ErrorMsg == "Failed to load your data source"

LoadIdle ==
    /\ lpc = "idle"
    /\ caller = "none"
    /\ source = << >>
    /\ is_web = FALSE /\ is_dir = FALSE /\ is_file = FALSE
    /\ route = "none"
    /\ loader = "none"
    /\ silent = TRUE
    /\ all_files = << >>
    /\ extracted = << >>
    /\ results = << >>
    /\ logged = 0
    /\ progress = 0
    /\ outcome = "none"
    /\ err = NoErr

\* ------------------------------------------------------- directory walker
\* Path(path).rglob("**/[!.]*"): the entries whose name does not start with "."
RECURSIVE RGlob(_)
RGlob(listing) ==
    IF listing = << >> THEN << >>
    ELSE IF Head(listing)[1] # "."
         THEN <<Head(listing)>> \o RGlob(Tail(listing))
         ELSE RGlob(Tail(listing))

\* load_directory up to its loop: all_files, results = [], the progress bar
EnterDirectory(path, listing, silent_errors) ==
    /\ source' = path
    /\ silent' = silent_errors
    /\ all_files' = RGlob(listing)
    /\ extracted' = << >>
    /\ results' = << >>
    /\ logged' = 0
    /\ progress' = 0
    /\ outcome' = "none"
    /\ err' = NoErr
    /\ lpc' = "walking"

\* a direct call load_directory(path, silent_errors)
CallLoadDirectory(path, listing, silent_errors) ==
    /\ lpc = "idle"
    /\ caller' = "load_directory"
    /\ is_web' = FALSE /\ is_dir' = FALSE /\ is_file' = FALSE
    /\ route' = "none"
    /\ loader' = "none"
    /\ EnterDirectory(path, listing, silent_errors)
    /\ UNCHANGED <<gitVars, faqVars>>

\* one iteration of "for file in all_files"
VisitEffect_no_update_on_failure(file, cls, ok, n) ==
    /\ extracted' = Append(extracted, <<ok, Documents(file, cls, n)>>)
    /\ IF ok
       THEN /\ results' = results \o Documents(file, cls, n)
            /\ progress' = progress + 1
            /\ UNCHANGED <<logged, outcome, err, lpc>>
       ELSE IF silent
            THEN /\ logged' = logged + 1
                 /\ UNCHANGED <<results, outcome, err, lpc, progress>>
            ELSE /\ outcome' = "raised"
                 /\ err' = [type |-> "ExtractionError", args |-> <<file>>]
                 /\ lpc' = "done"
                 /\ UNCHANGED <<results, logged, progress>>

VisitEffect_abort_always(file, cls, ok, n) ==
    /\ extracted' = Append(extracted, <<ok, Documents(file, cls, n)>>)
    /\ IF ok
       THEN /\ results' = results \o Documents(file, cls, n)
            /\ progress' = progress + 1
            /\ UNCHANGED <<logged, outcome, err, lpc>>
       ELSE /\ outcome' = "raised"
            /\ err' = [type |-> "ExtractionError", args |-> <<file>>]
            /\ lpc' = "done"
            /\ UNCHANGED <<results, logged, progress>>

VisitEffect(file, cls, ok, n) ==
    /\ extracted' = Append(extracted, <<ok, Documents(file, cls, n)>>)
    /\ IF ok
       THEN \* results.extend(load_document(str(file))); pbar.update()
            /\ results' = results \o Documents(file, cls, n)
            /\ progress' = progress + 1
            /\ UNCHANGED <<logged, outcome, err, lpc>>
       ELSE IF silent
            THEN \* logger.error(...); pbar.update()
                 /\ logged' = logged + 1
                 /\ progress' = progress + 1
                 /\ UNCHANGED <<results, outcome, err, lpc>>
            ELSE \* raise e: leaves the loop and the function
                 /\ outcome' = "raised"
                 /\ err' = [type |-> "ExtractionError", args |-> <<file>>]
                 /\ lpc' = "done"
                 /\ UNCHANGED <<results, logged, progress>>

Visit ==
    /\ lpc = "walking"
    /\ Len(extracted) < Len(all_files)
    /\ LET file == Len(extracted) + 1
           cls == LoadDocument(all_files[file], FILE_LOADER_MAPPING, "UnstructuredFileLoader")
       IN \E ok \in BOOLEAN, n \in 0..MaxParts :
            /\ (~ok => n = 0)
            /\ VisitEffect(file, cls, ok, n)
    /\ UNCHANGED <<caller, source, is_web, is_dir, is_file, route, loader, silent,
                   all_files>>
    /\ UNCHANGED <<gitVars, faqVars>>

\* the loop is over: return results
WalkReturn ==
    /\ lpc = "walking"
    /\ Len(extracted) = Len(all_files)
    /\ outcome' = "returned"
    /\ lpc' = "done"
    /\ UNCHANGED <<caller, source, is_web, is_dir, is_file, route, loader, silent,
                   all_files, extracted, results, logged, progress, err>>
    /\ UNCHANGED <<gitVars, faqVars>>

\* --------------------------------------------------------- load_data_source
\* the branch taken on the three flags
Route_web_first(web, dir, file) ==
    IF web THEN "web" ELSE IF dir THEN "directory" ELSE IF file THEN "file" ELSE "invalid"

Route_file_by_default(web, dir, file) ==
    IF dir THEN "directory" ELSE IF web THEN "web" ELSE "file"

Route(web, dir, file) ==
    IF dir THEN "directory" ELSE IF file THEN "file" ELSE IF web THEN "web" ELSE "invalid"

\* a single load_document(...) call inside the try: the loader's load()
\* returns n documents or raises; an exception gets error_msg appended to its
\* args and is raised again
SingleLoad(cls, ok, n) ==
    /\ loader' = cls
    /\ extracted' = <<<<ok, Documents(1, cls, n)>>>>
    /\ silent' = TRUE
    /\ all_files' = << >>
    /\ progress' = 0
    /\ lpc' = "done"
    /\ IF ok
       THEN /\ results' = Documents(1, cls, n)
            /\ outcome' = "returned"
            /\ err' = NoErr
            /\ logged' = 0
       ELSE /\ results' = << >>
            /\ outcome' = "raised"
            /\ err' = [type |-> "ExtractionError", args |-> <<cls, ErrorMsg>>]
            /\ logged' = 1

LoadDataSource(data_source, kind, listing) ==
    /\ lpc = "idle"
    /\ (kind # "dir" => listing = << >>)
    /\ caller' = "load_data_source"
    /\ source' = data_source
    /\ is_web' = StartsWith(data_source, <<"h", "t", "t", "p">>)
    /\ is_dir' = (kind = "dir")
    /\ is_file' = (kind = "file")
    /\ route' = Route(is_web', is_dir', is_file')
    /\ CASE route' = "directory" ->
              /\ loader' = "none"
              /\ EnterDirectory(data_source, listing, TRUE)
         [] route' = "file" ->
              \E ok \in BOOLEAN, n \in 0..MaxParts :
                 /\ (~ok => n = 0)
                 /\ SingleLoad(LoadDocument(data_source, FILE_LOADER_MAPPING,
                                            "UnstructuredFileLoader"), ok, n)
         [] route' = "web" ->
              \E ok \in BOOLEAN, n \in 0..MaxParts :
                 /\ (~ok => n = 0)
                 /\ SingleLoad(LoadDocument(data_source, WEB_LOADER_MAPPING,
                                            "WebBaseLoader"), ok, n)
         [] OTHER ->
              \* raise TypeError, caught, error_msg appended, raised again
              /\ loader' = "none"
              /\ extracted' = << >>
              /\ silent' = TRUE
              /\ all_files' = << >>
              /\ progress' = 0
              /\ results' = << >>
              /\ outcome' = "raised"
              /\ err' = [type |-> "TypeError", args |-> <<ErrorMsg>>]
              /\ logged' = 1
              /\ lpc' = "done"
    /\ UNCHANGED <<gitVars, faqVars>>

\* ------------------------------------------------------------ FAQ splitter
NL == "\n"
IsDigit(c) == c \in {"0", "1", "2", "3", "4", "5", "6", "7", "8", "9"}
IsSpace(c) == c \in {" ", NL, "\t", "\r"}

\* int() of one digit character
DigitValue(c) ==
    CASE c = "0" -> 0 [] c = "1" -> 1 [] c = "2" -> 2 [] c = "3" -> 3 [] c = "4" -> 4
      [] c = "5" -> 5 [] c = "6" -> 6 [] c = "7" -> 7 [] c = "8" -> 8 [] c = "9" -> 9

\* str.strip()
Strip(s) ==
    LET keep == {i \in 1..Len(s) : ~IsSpace(s[i])}
    IN IF keep = {} THEN << >> ELSE Slice(s, Min(keep), Max(keep))

\* re.sub(r"^\n+|\n+$", "", section): the newlines at both ends are dropped
TrimNewlines(section) ==
    LET keep == {i \in 1..Len(section) : section[i] # NL}
    IN IF keep = {} THEN << >> ELSE Slice(section, Min(keep), Max(keep))

\* the lookahead (?=\n\n\d+\.) holds before position i of s
BoundaryAt(s, i) ==
    /\ i + 3 <= Len(s)
    /\ s[i] = NL
    /\ s[i + 1] = NL
    /\ \E j \in (i + 3)..Len(s) :
          /\ s[j] = "."
          /\ \A k \in (i + 2)..(j - 1) : IsDigit(s[k])

RECURSIVE Pieces(_, _, _)
Pieces(s, from, cuts) ==
    LET later == {c \in cuts : c > from}
    IN IF later = {} THEN <<Slice(s, from, Len(s))>>
       ELSE <<Slice(s, from, Min(later) - 1)>> \o Pieces(s, Min(later), cuts)

\* re.split(r"(?=\n\n\d+\.)", s): s is cut before every boundary; a boundary
\* at the very start leaves an empty first piece
ReSplit(s) ==
    LET cuts == {i \in 1..Len(s) : BoundaryAt(s, i)}
    IN IF 1 \in cuts THEN <<<< >>>> \o Pieces(s, 1, cuts) ELSE Pieces(s, 1, cuts)

\* re.findall(r"\d", text): the digit characters of text, as positions
Digits(text) == {i \in 1..Len(text) : IsDigit(text[i])}

\* int(re.findall(r"\d", text)[0])
FaqNo(text) == DigitValue(text[Min(Digits(text))])

\* the body of split_documents' loop for one document: the chunks, or
\* IndexError when a section holds no digit
SplitDocument(page_content) ==
    LET split_text == ReSplit(Strip(page_content))
        filtered_text == [i \in 1..Len(split_text) |-> TrimNewlines(split_text[i])]
    IN IF \E i \in 1..Len(filtered_text) : Digits(filtered_text[i]) = {}
       THEN [ok |-> FALSE, chunks |-> << >>]
       ELSE [ok |-> TRUE,
             chunks |-> [i \in 1..Len(filtered_text) |->
                            [page_content |-> filtered_text[i],
                             faq_no |-> FaqNo(filtered_text[i])]]]

\* FAQ documents: numbered entries, each blank line(s), n, ".", a body
Blanks == {<<NL, NL>>, <<NL, NL, NL>>}
Numbers == {<<"1">>, <<"2">>, <<"1", "2">>}
Bodies == {<<" ", "a">>, <<" ", "a", NL, "b">>}
Entries == {[blank |-> b, n |-> n, body |-> t] : b \in Blanks, n \in Numbers, t \in Bodies}
EntryLists == UNION {[1..k -> Entries] : k \in 1..MaxEntries}

RenderEntry(e) == e.blank \o e.n \o <<".">> \o e.body

RECURSIVE Render(_)
Render(es) == IF es = << >> THEN << >> ELSE RenderEntry(Head(es)) \o Render(Tail(es))

\* any text over a small alphabet, well-formed or not
FaqAlphabet == {NL, "1", ".", "a"}
Texts == UNION {[1..k -> FaqAlphabet] : k \in 0..MaxText}

\* the documents of a call with several documents
ShortDocs == {Render(<<e>>) : e \in {x \in Entries : x.body = <<" ", "a">> /\ x.blank = <<NL, NL>>}}
                \cup {<<"a">>}

DocumentLists ==
    {<<Render(es)>> : es \in EntryLists}
        \cup {<<t>> : t \in Texts}
        \cup UNION {[1..k -> ShortDocs] : k \in 2..MaxDocs}

FaqIdle ==
    /\ fpc = "idle"
    /\ documents = << >>
    /\ splitted = << >>
    /\ fdone = 0
    /\ fout = "none"

\* split_documents(documents) up to its loop
CallSplitDocuments(contents) ==
    /\ fpc = "idle"
    /\ documents' = contents
    /\ splitted' = << >>
    /\ fdone' = 0
    /\ fout' = "none"
    /\ fpc' = "splitting"
    /\ UNCHANGED <<gitVars, loadVars>>

\* one iteration of "for document in documents"
SplitNext ==
    /\ fpc = "splitting"
    /\ fdone < Len(documents)
    /\ LET r == SplitDocument(documents[fdone + 1])
       IN IF r.ok
          THEN /\ splitted' = splitted \o r.chunks
               /\ fdone' = fdone + 1
               /\ UNCHANGED <<fpc, fout>>
          ELSE /\ fout' = "IndexError"
               /\ fpc' = "done"
               /\ UNCHANGED <<splitted, fdone>>
    /\ UNCHANGED documents
    /\ UNCHANGED <<gitVars, loadVars>>

\* return splitted_documents
SplitReturn ==
    /\ fpc = "splitting"
    /\ fdone = Len(documents)
    /\ fout' = "returned"
    /\ fpc' = "done"
    /\ UNCHANGED <<documents, splitted, fdone>>
    /\ UNCHANGED <<gitVars, loadVars>>

\* ------------------------------------------------ git fetcher, continued
\* os.path.exists(repo_path)
PathExists(path) ==
    IF path = << >> THEN dataExists ELSE dataExists /\ clones[path] # NoDir

\* what the checkout at path holds
Origin(path) == IF path = << >> THEN Pre ELSE clones[path]

\* no call of AutoGitLoader.load is running
GitIdle ==
    /\ gpc = [p \in Procs |-> "idle"]
    /\ url = [p \in Procs |-> None]
    /\ clone_url = [p \in Procs |-> None]
    /\ attempts = [p \in Procs |-> << >>]
    /\ docs = [p \in Procs |-> Unset]
    /\ logs = [p \in Procs |-> 0]
    /\ gres = [p \in Procs |-> "none"]
    /\ removed = {}
    /\ calls = 0
    /\ called = [p \in Procs |-> {}]

\* the workspace before the first call: absent, empty, or holding directories
GitInit ==
    /\ dataExists \in BOOLEAN
    /\ clones \in [DirNames -> {NoDir, Pre}]
    /\ (~dataExists => \A n \in DirNames : clones[n] = NoDir)
    /\ GitIdle
    /\ LoadIdle
    /\ FaqIdle

\* AutoGitLoader.load up to the loop: makedirs, repo_name, repo_path, clone_url
Begin(p, u) ==
    /\ gpc[p] \in {"idle", "done"}
    /\ calls < MaxCalls
    /\ calls' = calls + 1
    /\ called' = [called EXCEPT ![p] = @ \cup {u}]
    /\ dataExists' = TRUE
    /\ url' = [url EXCEPT ![p] = u]
    /\ clone_url' = [clone_url EXCEPT ![p] =
           IF RepoPath(u) = << >> \/ (dataExists /\ clones[RepoPath(u)] # NoDir)
           THEN None ELSE u]
    /\ attempts' = [attempts EXCEPT ![p] = << >>]
    /\ docs' = [docs EXCEPT ![p] = Unset]
    /\ logs' = [logs EXCEPT ![p] = 0]
    /\ gres' = [gres EXCEPT ![p] = "none"]
    /\ gpc' = [gpc EXCEPT ![p] = "loop"]
    /\ UNCHANGED <<clones, removed, loadVars, faqVars>>

\* GitLoader(repo_path, clone_url, branch).load(): the outcomes the library
\* can produce, each <<ok, what repo_path holds afterwards>>. A failed clone
\* may or may not leave its directory behind.
GitLoaderOutcomes(path, curl) ==
    IF curl = None
    THEN \* Repo(repo_path); a missing path is a ValueError
         IF PathExists(path)
         THEN {<<TRUE, Origin(path)>>, <<FALSE, Origin(path)>>}
         ELSE {<<FALSE, NoDir>>}
    ELSE IF PathExists(path)
         THEN \* an existing checkout is reused only if its origin is clone_url
              IF Origin(path) = curl
              THEN {<<TRUE, curl>>, <<FALSE, curl>>}
              ELSE {<<FALSE, Origin(path)>>}
         ELSE \* Repo.clone_from, then checkout of the branch
              {<<TRUE, curl>>, <<FALSE, curl>>, <<FALSE, NoDir>>}

\* one iteration of "for branch in branches": try, break or log
Attempt(p) ==
    /\ gpc[p] = "loop"
    /\ Len(attempts[p]) < Len(Branches)
    /\ LET branch == Branches[Len(attempts[p]) + 1]
           path == RepoPath(url[p])
       IN \E o \in GitLoaderOutcomes(path, clone_url[p]) :
            /\ attempts' = [attempts EXCEPT ![p] = Append(@, <<branch, o[1], path = << >> \/ o[2] # NoDir>>)]
            /\ IF path = << >>
               THEN UNCHANGED <<clones, dataExists>>
               ELSE /\ clones' = [clones EXCEPT ![path] = o[2]]
                    /\ dataExists' = (dataExists \/ o[2] # NoDir)
            /\ IF o[1]
               THEN /\ docs' = [docs EXCEPT ![p] = [branch |-> branch, origin |-> o[2]]]
                    /\ gpc' = [gpc EXCEPT ![p] = "cleanup"]
                    /\ UNCHANGED logs
               ELSE /\ logs' = [logs EXCEPT ![p] = @ + 1]
                    /\ gpc' = [gpc EXCEPT ![p] =
                           IF Len(attempts[p]) + 1 = Len(Branches) THEN "cleanup" ELSE "loop"]
                    /\ UNCHANGED docs
    /\ UNCHANGED <<url, clone_url, gres, removed, calls, called, loadVars, faqVars>>

\* after the loop: rmtree of repo_path if it exists, then return docs or
\* raise RuntimeError when docs was never bound
Finish_keep_on_failure(p) ==
    /\ gpc[p] = "cleanup"
    /\ LET path == RepoPath(url[p])
       IN IF PathExists(path) /\ docs[p] # Unset
          THEN /\ removed' = removed \cup {path}
               /\ IF path = << >>
                  THEN /\ dataExists' = FALSE
                       /\ clones' = [n \in DirNames |-> NoDir]
                  ELSE /\ clones' = [clones EXCEPT ![path] = NoDir]
                       /\ UNCHANGED dataExists
          ELSE UNCHANGED <<removed, dataExists, clones>>
    /\ gres' = [gres EXCEPT ![p] = IF docs[p] = Unset THEN "raised" ELSE "returned"]
    /\ gpc' = [gpc EXCEPT ![p] = "done"]
    /\ UNCHANGED <<url, clone_url, attempts, docs, logs, calls, called, loadVars, faqVars>>

Finish(p) ==
    /\ gpc[p] = "cleanup"
    /\ LET path == RepoPath(url[p])
       IN IF PathExists(path)
          THEN /\ removed' = removed \cup {path}
               /\ IF path = << >>
                  THEN /\ dataExists' = FALSE
                       /\ clones' = [n \in DirNames |-> NoDir]
                  ELSE /\ clones' = [clones EXCEPT ![path] = NoDir]
                       /\ UNCHANGED dataExists
          ELSE UNCHANGED <<removed, dataExists, clones>>
    /\ gres' = [gres EXCEPT ![p] = IF docs[p] = Unset THEN "raised" ELSE "returned"]
    /\ gpc' = [gpc EXCEPT ![p] = "done"]
    /\ UNCHANGED <<url, clone_url, attempts, docs, logs, calls, called, loadVars, faqVars>>

\* sequential calls of AutoGitLoader.load
GitNext ==
    \/ \E u \in GitUrls : Begin(1, u)
    \/ Attempt(1)
    \/ Finish(1)

SpecGit == GitInit /\ [][GitNext]_vars

\* two calls of AutoGitLoader.load running interleaved, no locking
GitConcNext ==
    \/ \E p \in Procs, u \in GitUrls : Begin(p, u)
    \/ \E p \in Procs : Attempt(p)
    \/ \E p \in Procs : Finish(p)

SpecGitConc == GitInit /\ [][GitConcNext]_vars

\* calls of load_data_source and of load_directory, one at a time
DataSourceCall ==
    /\ lpc = "idle"
    /\ \E s \in Sources, k \in Kinds, l \in Listings : LoadDataSource(s, k, l)

DirectoryCall ==
    /\ lpc = "idle"
    /\ \E l \in Listings, se \in BOOLEAN : CallLoadDirectory(<<"d">>, l, se)

LoadNext ==
    \/ DataSourceCall
    \/ DirectoryCall
    \/ Visit
    \/ WalkReturn

\* nothing has been called; the workspace does not exist yet
Init ==
    /\ dataExists = FALSE
    /\ clones = [n \in DirNames |-> NoDir]
    /\ GitIdle
    /\ LoadIdle
    /\ FaqIdle

SpecLoad == Init /\ [][LoadNext]_vars

\* calls of SmartFAQSplitter.split_documents
SplitCall ==
    /\ fpc = "idle"
    /\ \E contents \in DocumentLists : CallSplitDocuments(contents)

FaqNext ==
    \/ SplitCall
    \/ SplitNext
    \/ SplitReturn

SpecFaq == Init /\ [][FaqNext]_vars

\* ------------------------------------------------------ git fetcher claims
Failed(as) == {i \in 1..Len(as) : ~as[i][2]}

\* C1: when AutoGitLoader.load has returned or raised, the derived clone path
\* does not exist, and after any sequence of calls no directory of the
\* workspace holds a clone made by a call (only directories that were there
\* before the first call can remain).
C1_CloneRemoved ==
    gpc[1] = "done" =>
        /\ ~PathExists(RepoName(url[1]))
        /\ \A n \in DirNames : clones[n] \in {NoDir, Pre}

\* a second call that cloned (clone_url set), failed on both branches with the
\* clone left on disk by an attempt, and removed it
C1_Witness ==
    /\ gpc[1] = "done"
    /\ calls >= 2
    /\ gres[1] = "raised"
    /\ clone_url[1] # None
    /\ \E i \in 1..Len(attempts[1]) : attempts[1][i][3]
    /\ RepoName(url[1]) \in removed

\* C2: the first attempt is on "main", a second one only on "master" and only
\* after "main" failed, never a third; every failed attempt is logged; the
\* call returns the documents of the first successful attempt and raises
\* exactly when both attempts failed.
C2_BranchFallback ==
    LET as == attempts[1]
    IN /\ Len(as) <= 2
       /\ (Len(as) >= 1 => as[1][1] = "main")
       /\ (Len(as) = 2 => as[2][1] = "master" /\ ~as[1][2])
       /\ logs[1] = Cardinality(Failed(as))
       /\ (gpc[1] = "loop" => Failed(as) = 1..Len(as))
       /\ (gpc[1] \in {"cleanup", "done"} =>
              /\ Len(as) >= 1
              /\ (as[Len(as)][2] \/ Len(as) = 2))
       /\ (gpc[1] = "done" =>
              /\ gres[1] \in {"returned", "raised"}
              /\ (gres[1] = "raised" <=> (Len(as) = 2 /\ Failed(as) = {1, 2}))
              /\ (gres[1] = "returned" =>
                     /\ as[Len(as)][2]
                     /\ docs[1].branch = as[Len(as)][1]))

\* "main" failed and was logged, "master" succeeded and its documents returned
C2_Witness ==
    /\ gpc[1] = "done"
    /\ attempts[1][1][1] = "main" /\ ~attempts[1][1][2]
    /\ Len(attempts[1]) = 2 /\ attempts[1][2][2]
    /\ logs[1] = 1
    /\ gres[1] = "returned"
    /\ docs[1].branch = "master"

\* C10: the only paths a call removes are directories below DATA_PATH with a
\* non-empty name, and DATA_PATH still exists when the call is over.
C10_WorkspaceKept ==
    /\ \A path \in removed : path # << >>
    /\ (gpc[1] = "done" => dataExists)

\* a call uses a checkout that a call made (it never cloned itself)
UsesForeignCheckout(p) ==
    /\ clone_url[p] = None
    /\ docs[p] # Unset
    /\ docs[p].origin \in GitUrls

\* a call is between attempts on a directory it found or made, and the
\* directory is gone
LostCheckout(p) ==
    /\ gpc[p] = "loop"
    /\ url[p] # None
    /\ ~PathExists(RepoName(url[p]))
    /\ \/ clone_url[p] = None
       \/ (Len(attempts[p]) > 0 /\ attempts[p][Len(attempts[p])][3])

\* C9: with two interleaved calls and no locking, a call can lose the
\* directory it is working on, or work on the other call's checkout; this
\* happens only between calls whose clone paths collide: the other caller
\* has run a call that derived the same repository name, or the empty name
\* (DATA_PATH itself).
C9_CollisionOnly ==
    \A p \in Procs :
        (UsesForeignCheckout(p) \/ LostCheckout(p)) =>
            \E q \in Procs \ {p} : \E u \in called[q] :
                RepoName(u) \in {RepoName(url[p]), << >>}

\* two different URLs with the same non-empty name: call 2 loaded from the
\* checkout call 1 made, and removed it while call 1 was between attempts
C9_Witness ==
    /\ url[1] # None /\ url[2] # None /\ url[1] # url[2]
    /\ RepoName(url[1]) = RepoName(url[2])
    /\ RepoName(url[1]) # << >>
    /\ UsesForeignCheckout(2)
    /\ docs[2].origin = url[1]
    /\ gpc[2] = "done"
    /\ LostCheckout(1)

\* ------------------------------------------- dispatch and walker claims
\* str.endswith(p)
EndsWith(s, p) == Len(s) >= Len(p) /\ Slice(s, Len(s) - Len(p) + 1, Len(s)) = p

\* p occurs in s
Contains(s, p) == \E i \in 1..(Len(s) - Len(p) + 1) : Slice(s, i, i + Len(p) - 1) = p

LocalLoaders == {m[2] : m \in FILE_LOADER_MAPPING} \cup {"UnstructuredFileLoader"}
RemoteLoaders == {"AutoGitLoader", "OnlinePDFLoader", "WebBaseLoader"}

\* C3: load_data_source takes the first route whose condition holds, in the
\* order directory, file, URL prefix, and otherwise fails with TypeError; a
\* later route is never taken when an earlier condition holds.
C3_FirstMatchDispatch ==
    caller = "load_data_source" =>
        /\ is_web = (Len(source) >= 4 /\ SubSeq(source, 1, 4) = <<"h", "t", "t", "p">>)
        /\ route \in {"directory", "file", "web", "invalid"}
        /\ (is_dir => route = "directory" /\ loader = "none" /\ silent)
        /\ (~is_dir /\ is_file => route = "file" /\ loader \in LocalLoaders)
        /\ (~is_dir /\ ~is_file /\ is_web => route = "web" /\ loader \in RemoteLoaders)
        /\ (~is_dir /\ ~is_file /\ ~is_web =>
               route = "invalid" /\ outcome = "raised" /\ err.type = "TypeError")

\* an existing directory whose path starts with "http" was walked locally
C3_Witness ==
    /\ caller = "load_data_source"
    /\ is_dir /\ is_web
    /\ route = "directory"
    /\ lpc = "done"
    /\ outcome = "returned"
    /\ Len(results) > 0

\* a repository URL as the claim has it: a ".git" suffix or a well-known host
IsRepositoryUrl(s) == EndsWith(s, DOTGIT) \/ Contains(s, GITHUB)

\* C6 as stated: a URL goes to AutoGitLoader when it has a ".git" suffix or a
\* well-known repository host, and every other URL to WebBaseLoader.
C6_RepositoryUrlsToGit ==
    (caller = "load_data_source" /\ route = "web") =>
        loader = IF IsRepositoryUrl(source) THEN "AutoGitLoader" ELSE "WebBaseLoader"

\* C6 as amended: the remote route looks at the text after the last "." only:
\* a URL ending in ".git" goes to AutoGitLoader, one ending in ".pdf" to
\* OnlinePDFLoader, every other URL to WebBaseLoader, whatever its host.
C6_SuffixOnly ==
    (caller = "load_data_source" /\ route = "web") =>
        loader = IF EndsWith(source, DOTGIT) THEN "AutoGitLoader"
                 ELSE IF EndsWith(source, DOTPDF) THEN "OnlinePDFLoader"
                 ELSE "WebBaseLoader"

\* a URL on the repository host without a ".git" suffix went to WebBaseLoader
C6_Witness ==
    /\ caller = "load_data_source"
    /\ route = "web"
    /\ Contains(source, GITHUB)
    /\ ~EndsWith(source, DOTGIT)
    /\ ~EndsWith(source, DOTPDF)
    /\ loader = "WebBaseLoader"
    /\ outcome = "returned"

Count(b) == IF b THEN 1 ELSE 0

\* C7 as stated: exactly one of is_dir, is_file, is_web holds, or none holds
\* and the source is rejected; never two at once.
C7_ExactlyOneFlag ==
    caller = "load_data_source" =>
        \/ Count(is_dir) + Count(is_file) + Count(is_web) = 1
        \/ (~is_dir /\ ~is_file /\ ~is_web /\ route = "invalid" /\ outcome = "raised")

\* C7 as amended: is_dir and is_file never hold together; is_web can hold
\* together with either, and then the local route is taken; the source is
\* rejected with TypeError exactly when none of the three holds.
C7_FlagsAndRoute ==
    caller = "load_data_source" =>
        /\ ~(is_dir /\ is_file)
        /\ (is_web /\ (is_dir \/ is_file) => route \in {"directory", "file"})
        /\ ((~is_dir /\ ~is_file /\ ~is_web) <=> route = "invalid")
        /\ (route = "invalid" <=> (outcome = "raised" /\ err.type = "TypeError"))

\* an existing file whose path starts with "http": two flags hold, loaded locally
C7_Witness ==
    /\ caller = "load_data_source"
    /\ is_web /\ is_file
    /\ route = "file"
    /\ outcome = "returned"

\* the state belongs to a run of load_directory
InWalk == caller = "load_directory" \/ route = "directory"

FailedFiles == {i \in 1..Len(extracted) : ~extracted[i][1]}

\* the documents of the files that succeeded, in enumeration order
RECURSIVE Succeeded(_)
Succeeded(ex) ==
    IF ex = << >> THEN << >>
    ELSE (IF Head(ex)[1] THEN Head(ex)[2] ELSE << >>) \o Succeeded(Tail(ex))

\* C4: with silent_errors the walk never raises, visits every enumerated file,
\* logs one error per failing file and returns the documents of the files
\* that succeeded, in enumeration order; without it the walk raises the error
\* of the first failing file and extracts no file after it.
C4_WalkFailurePolicy ==
    InWalk =>
        /\ (silent => outcome # "raised" /\ logged = Cardinality(FailedFiles))
        /\ (lpc = "done" /\ silent =>
               /\ outcome = "returned"
               /\ Len(extracted) = Len(all_files)
               /\ results = Succeeded(extracted))
        /\ (lpc = "done" /\ ~silent /\ FailedFiles = {} =>
               /\ outcome = "returned"
               /\ Len(extracted) = Len(all_files)
               /\ results = Succeeded(extracted))
        /\ (~silent /\ FailedFiles # {} =>
               /\ lpc = "done"
               /\ outcome = "raised"
               /\ FailedFiles = {Len(extracted)}
               /\ err.args = <<Len(extracted)>>)

\* a silent walk over a failing file followed by a good one returned the
\* good file's documents and logged one error
C4_Witness ==
    /\ InWalk /\ silent
    /\ lpc = "done"
    /\ Len(extracted) = 2
    /\ ~extracted[1][1] /\ extracted[2][1]
    /\ logged = 1
    /\ Len(results) > 0
    /\ results = extracted[2][2]

\* C8 as stated: in both modes the progress units equal the number of files
\* whose extraction was attempted and completed, successfully or not.
C8_ProgressPerAttempt == InWalk => progress = Len(extracted)

\* C8 as amended: progress advances by one for every file whose extraction
\* succeeded and, with silent_errors, for every file that failed; without
\* silent_errors the failing file that aborts the walk is not counted.
C8_ProgressPerCompletedIteration ==
    InWalk =>
        /\ (silent => progress = Len(extracted))
        /\ (~silent => progress = Len(extracted) - Count(outcome = "raised"))

\* a non-silent walk that raised on its second file: one unit for two attempts
C8_Witness ==
    /\ InWalk /\ ~silent
    /\ outcome = "raised"
    /\ Len(extracted) = 2
    /\ progress = 1

\* ------------------------------------------------------ FAQ splitter claims
RECURSIVE NumberValue(_)
NumberValue(ds) ==
    IF ds = << >> THEN 0 ELSE NumberValue(SubSeq(ds, 1, Len(ds) - 1)) * 10 + DigitValue(ds[Len(ds)])

\* C5: a document that is a sequence of numbered entries, each introduced by
\* blank line(s), an integer n and a period, is split into one chunk per
\* entry, in order, without leading or trailing newline, and with faq_no = n.
C5_OneChunkPerEntry ==
    \A es \in EntryLists :
        (fpc = "done" /\ documents = <<Render(es)>>) =>
            /\ fout = "returned"
            /\ Len(splitted) = Len(es)
            /\ \A i \in 1..Len(es) :
                  /\ splitted[i].page_content = es[i].n \o <<".">> \o es[i].body
                  /\ splitted[i].page_content[1] # NL
                  /\ splitted[i].page_content[Len(splitted[i].page_content)] # NL
                  /\ splitted[i].faq_no = NumberValue(es[i].n)

====
